---- MODULE Spec2Model ----
(***************************************************************************)
(* Quiz-taking client (app/quiz/[id].tsx, lib/api.ts): the answer          *)
(* normalisation, local correctness evaluation and submission encoding     *)
(* functions, and the attempt session of QuizScreen.                       *)
(*                                                                         *)
(* JavaScript values are tagged records: [t |-> "str", s |-> "Paris"],     *)
(* [t |-> "num", n |-> 15] (fixed point, tenths: 15 is 1.5),               *)
(* [t |-> "nan"], [t |-> "bool", b |-> TRUE], [t |-> "null"],              *)
(* [t |-> "undefined"], [t |-> "arr", a |-> <<...>>],                      *)
(* [t |-> "obj", f |-> [field |-> value]], and [t |-> "throw"] for a       *)
(* raised exception.  Strings are TLA+ strings, taken apart character by   *)
(* character with SubSeq.                                                  *)
(***************************************************************************)
EXTENDS Integers, Sequences, FiniteSets, TLC

(***************************************************************************)
(* Characters and strings                                                  *)
(***************************************************************************)
\* The characters of the model in increasing UTF-16 code unit order.
Alphabet == " \",-.0123456789ABCDEFGHIJKLMNOPQRSTUVWXYZ[\\]abcdefghijklmnopqrstuvwxyz|"

UpperChars == "ABCDEFGHIJKLMNOPQRSTUVWXYZ"

LowerChars == "abcdefghijklmnopqrstuvwxyz"

DigitChars == "0123456789"

CharAt(s, i) == SubSeq(s, i, i)

\* position of character c in string s, 0 when absent (String.prototype.indexOf + 1)
IndexIn(c, s) ==
  IF \E i \in 1..Len(s) : CharAt(s, i) = c
  THEN CHOOSE i \in 1..Len(s) : CharAt(s, i) = c /\ \A j \in 1..(i - 1) : CharAt(s, j) # c
  ELSE 0

IsDigit(c) == IndexIn(c, DigitChars) > 0

DigitVal(c) == IndexIn(c, DigitChars) - 1

LowerChar(c) ==
  IF IndexIn(c, UpperChars) > 0 THEN CharAt(LowerChars, IndexIn(c, UpperChars)) ELSE c

\* a string with its letters left as they are
toLowerCase_asIs(s) == s

RECURSIVE toLowerCase(_)
toLowerCase(s) ==
  IF Len(s) = 0 THEN "" ELSE LowerChar(CharAt(s, 1)) \o toLowerCase(SubSeq(s, 2, Len(s)))

RECURSIVE trimStart(_)
trimStart(s) ==
  IF Len(s) > 0 /\ CharAt(s, 1) = " " THEN trimStart(SubSeq(s, 2, Len(s))) ELSE s

RECURSIVE trimEnd(_)
trimEnd(s) ==
  IF Len(s) > 0 /\ CharAt(s, Len(s)) = " " THEN trimEnd(SubSeq(s, 1, Len(s) - 1)) ELSE s

trim(s) == trimEnd(trimStart(s))

startsWith(s, p) == Len(p) <= Len(s) /\ SubSeq(s, 1, Len(p)) = p

\* s < t in the order Array.prototype.sort uses for strings (code units)
RECURSIVE StrLess(_, _)
StrLess(s, t) ==
  IF Len(t) = 0 THEN FALSE
  ELSE IF Len(s) = 0 THEN TRUE
  ELSE IF CharAt(s, 1) = CharAt(t, 1) THEN StrLess(SubSeq(s, 2, Len(s)), SubSeq(t, 2, Len(t)))
  ELSE IndexIn(CharAt(s, 1), Alphabet) < IndexIn(CharAt(t, 1), Alphabet)

\* String.prototype.split on a one-character separator
RECURSIVE splitAcc(_, _, _)
splitAcc(s, sep, cur) ==
  IF Len(s) = 0 THEN <<cur>>
  ELSE IF CharAt(s, 1) = sep THEN <<cur>> \o splitAcc(SubSeq(s, 2, Len(s)), sep, "")
  ELSE splitAcc(SubSeq(s, 2, Len(s)), sep, cur \o CharAt(s, 1))

split(s, sep) == splitAcc(s, sep, "")

(***************************************************************************)
(* JavaScript values                                                       *)
(***************************************************************************)
Undefined == [t |-> "undefined"]

Null == [t |-> "null"]

NaN == [t |-> "nan"]

Throw == [t |-> "throw"]

Str(s) == [t |-> "str", s |-> s]

\* the number k/10
Tenths(k) == [t |-> "num", n |-> k]

Num(k) == Tenths(10 * k)

Bool(b) == [t |-> "bool", b |-> b]

Arr(a) == [t |-> "arr", a |-> a]

Obj(f) == [t |-> "obj", f |-> f]

IsStr(v) == v.t = "str"

IsNum(v) == v.t = "num"

IsArr(v) == v.t = "arr"

IsThrow(v) == v.t = "throw"

\* v == null
IsNullish(v) == v.t \in {"null", "undefined"}

\* ToBoolean
Truthy(v) ==
  CASE v.t = "str" -> Len(v.s) > 0
    [] v.t = "num" -> v.n # 0
    [] v.t = "bool" -> v.b
    [] v.t \in {"arr", "obj"} -> TRUE
    [] OTHER -> FALSE

\* a || b
Or(a, b) == IF Truthy(a) THEN a ELSE b

\* obj.field of a plain object: undefined when the field is missing
Get(o, field) == IF o.t = "obj" /\ field \in DOMAIN o.f THEN o.f[field] ELSE Undefined

\* Array.prototype.findIndex + 1: the first position whose element satisfies P, 0 if none
FindIndex(seq, P(_)) ==
  IF \E i \in 1..Len(seq) : P(seq[i])
  THEN CHOOSE i \in 1..Len(seq) : P(seq[i]) /\ \A j \in 1..(i - 1) : ~P(seq[j])
  ELSE 0

\* Array.prototype.filter
RECURSIVE FilterTruthy(_)
FilterTruthy(a) ==
  IF Len(a) = 0 THEN <<>>
  ELSE (IF Truthy(a[1]) THEN <<a[1]>> ELSE <<>>) \o FilterTruthy(Tail(a))

\* const x = v; F(x): v is evaluated once and named
Let(v, F(_)) == F(v)

\* const x = v, y = w; F(x, y)
Let2(v, w, F(_, _)) == F(v, w)

(***************************************************************************)
(* Number(string), String(value)                                           *)
(***************************************************************************)
RECURSIVE AllDigits(_)
AllDigits(s) == Len(s) = 0 \/ (IsDigit(CharAt(s, 1)) /\ AllDigits(SubSeq(s, 2, Len(s))))

RECURSIVE DigitsVal(_, _)
DigitsVal(s, acc) ==
  IF Len(s) = 0 THEN acc ELSE DigitsVal(SubSeq(s, 2, Len(s)), 10 * acc + DigitVal(CharAt(s, 1)))

\* an unsigned decimal literal "12", "1.5", "1.", ".5" as tenths, NaN otherwise.
\* The numeric strings of the model carry at most one fractional digit and no
\* exponent, hexadecimal or Infinity form.
UnsignedToNumber(s) ==
  Let(IndexIn(".", s), LAMBDA dot :
  Let2(IF dot = 0 THEN s ELSE SubSeq(s, 1, dot - 1),
       IF dot = 0 THEN "" ELSE SubSeq(s, dot + 1, Len(s)), LAMBDA int, frac :
    IF Len(int) + Len(frac) = 0 \/ ~AllDigits(int) \/ ~AllDigits(frac) \/ Len(frac) > 1
    THEN NaN
    ELSE Tenths(10 * DigitsVal(int, 0) + DigitsVal(frac, 0))))

\* no string read as a number
StringToNumber_nan(s0) == NaN

\* Number(s) for a string s
StringToNumber(s0) ==
  Let(trim(s0), LAMBDA s :
    IF Len(s) = 0 THEN Num(0)
    ELSE Let(UnsignedToNumber(IF CharAt(s, 1) = "-" THEN SubSeq(s, 2, Len(s)) ELSE s), LAMBDA u :
           IF CharAt(s, 1) # "-" \/ u.t = "nan" THEN u ELSE Tenths(0 - u.n)))

RECURSIVE NatToString(_)
NatToString(k) ==
  IF k < 10 THEN CharAt(DigitChars, k + 1)
  ELSE NatToString(k \div 10) \o CharAt(DigitChars, (k % 10) + 1)

\* Number.prototype.toString of the number k/10
NumberToString(k) ==
  Let(IF k < 0 THEN 0 - k ELSE k, LAMBDA a :
    (IF k < 0 THEN "-" ELSE "") \o NatToString(a \div 10)
      \o (IF a % 10 = 0 THEN "" ELSE "." \o NatToString(a % 10)))

\* String(v)
RECURSIVE StringOf(_)
RECURSIVE JoinComma(_)
JoinComma(a) ==
  IF Len(a) = 0 THEN ""
  ELSE (IF IsNullish(a[1]) THEN "" ELSE StringOf(a[1]))
       \o (IF Len(a) = 1 THEN "" ELSE "," \o JoinComma(Tail(a)))

StringOf(v) ==
  CASE v.t = "str" -> v.s
    [] v.t = "num" -> NumberToString(v.n)
    [] v.t = "nan" -> "NaN"
    [] v.t = "bool" -> IF v.b THEN "true" ELSE "false"
    [] v.t = "null" -> "null"
    [] v.t = "undefined" -> "undefined"
    [] v.t = "arr" -> JoinComma(v.a)
    [] OTHER -> "[object Object]"

\* a === b for the scalar values the code compares with ===
StrictEq(a, b) ==
  /\ a.t = b.t
  /\ CASE a.t = "str" -> a.s = b.s
       [] a.t = "num" -> a.n = b.n
       [] a.t = "bool" -> a.b = b.b
       [] a.t \in {"null", "undefined"} -> TRUE
       [] OTHER -> FALSE

(***************************************************************************)
(* JSON.parse, JSON.stringify                                              *)
(***************************************************************************)
ParseFail == [ok |-> FALSE]

ParseOk(v, rest) == [ok |-> TRUE, v |-> v, rest |-> rest]

\* the characters of a JSON string body up to the closing quote; the escapes
\* \" and \\ are decoded (the only escapes JSON.stringify emits in this model)
RECURSIVE ParseStringBody(_, _)
ParseStringBody(s, acc) ==
  IF Len(s) = 0 THEN ParseFail
  ELSE IF CharAt(s, 1) = "\"" THEN ParseOk(Str(acc), SubSeq(s, 2, Len(s)))
  ELSE IF CharAt(s, 1) = "\\"
  THEN IF Len(s) >= 2 /\ CharAt(s, 2) \in {"\"", "\\"}
       THEN ParseStringBody(SubSeq(s, 3, Len(s)), acc \o CharAt(s, 2))
       ELSE ParseFail
  ELSE ParseStringBody(SubSeq(s, 2, Len(s)), acc \o CharAt(s, 1))

RECURSIVE DigitRun(_)
DigitRun(s) == IF Len(s) > 0 /\ IsDigit(CharAt(s, 1)) THEN 1 + DigitRun(SubSeq(s, 2, Len(s))) ELSE 0

\* the fraction of a JSON number, after the integer digits of value int: (. [0-9])?
ParseFraction(int, neg, r1) ==
  IF Len(r1) > 0 /\ CharAt(r1, 1) = "."
  THEN IF DigitRun(SubSeq(r1, 2, Len(r1))) # 1 THEN ParseFail
       ELSE Let(10 * int + DigitVal(CharAt(r1, 2)), LAMBDA val :
              ParseOk(Tenths(IF neg THEN 0 - val ELSE val), SubSeq(r1, 3, Len(r1))))
  ELSE ParseOk(Tenths(IF neg THEN 0 - 10 * int ELSE 10 * int), r1)

\* JSON number: -? (0 | [1-9][0-9]*) (. [0-9]+)?, with one fractional digit at most
ParseNumber(s) ==
  Let(Len(s) > 0 /\ CharAt(s, 1) = "-", LAMBDA neg :
  Let(IF neg THEN SubSeq(s, 2, Len(s)) ELSE s, LAMBDA u :
  Let(DigitRun(u), LAMBDA ni :
    IF ni = 0 \/ (ni > 1 /\ CharAt(u, 1) = "0") THEN ParseFail
    ELSE ParseFraction(DigitsVal(SubSeq(u, 1, ni), 0), neg, SubSeq(u, ni + 1, Len(u))))))

RECURSIVE ParseValue(_)
RECURSIVE ParseElements(_, _)
\* after "[" or ",": one value, then "," or "]"
ParseElements(s0, acc) ==
  Let(ParseValue(trimStart(s0)), LAMBDA r :
    IF ~r.ok THEN ParseFail
    ELSE Let(trimStart(r.rest), LAMBDA s :
           IF Len(s) = 0 THEN ParseFail
           ELSE IF CharAt(s, 1) = "," THEN ParseElements(SubSeq(s, 2, Len(s)), Append(acc, r.v))
           ELSE IF CharAt(s, 1) = "]" THEN ParseOk(Arr(Append(acc, r.v)), SubSeq(s, 2, Len(s)))
           ELSE ParseFail))

ParseValue(s) ==
  IF Len(s) = 0 THEN ParseFail
  ELSE IF startsWith(s, "null") THEN ParseOk(Null, SubSeq(s, 5, Len(s)))
  ELSE IF startsWith(s, "true") THEN ParseOk(Bool(TRUE), SubSeq(s, 5, Len(s)))
  ELSE IF startsWith(s, "false") THEN ParseOk(Bool(FALSE), SubSeq(s, 6, Len(s)))
  ELSE IF CharAt(s, 1) = "\"" THEN ParseStringBody(SubSeq(s, 2, Len(s)), "")
  ELSE IF CharAt(s, 1) = "["
  THEN Let(trimStart(SubSeq(s, 2, Len(s))), LAMBDA b :
         IF Len(b) > 0 /\ CharAt(b, 1) = "]" THEN ParseOk(Arr(<<>>), SubSeq(b, 2, Len(b)))
         ELSE ParseElements(b, <<>>))
  ELSE ParseNumber(s)

\* JSON.parse(s): the parsed value, or Throw (SyntaxError).  The alphabet has no
\* braces, so no input denotes a JSON object.
JSONparse(s) ==
  Let(ParseValue(trimStart(s)), LAMBDA r :
    IF r.ok /\ Len(trimStart(r.rest)) = 0 THEN r.v ELSE Throw)

RECURSIVE QuoteBody(_)
QuoteBody(s) ==
  IF Len(s) = 0 THEN ""
  ELSE (IF CharAt(s, 1) \in {"\"", "\\"} THEN "\\" ELSE "") \o CharAt(s, 1) \o QuoteBody(SubSeq(s, 2, Len(s)))

\* JSON.stringify(v) for scalars and arrays of them
RECURSIVE JSONstringify(_)
RECURSIVE StringifyElements(_)
StringifyElements(a) ==
  IF Len(a) = 0 THEN ""
  ELSE JSONstringify(a[1]) \o (IF Len(a) = 1 THEN "" ELSE "," \o StringifyElements(Tail(a)))

JSONstringify(v) ==
  CASE v.t = "str" -> "\"" \o QuoteBody(v.s) \o "\""
    [] v.t = "num" -> NumberToString(v.n)
    [] v.t = "bool" -> IF v.b THEN "true" ELSE "false"
    [] v.t = "arr" -> "[" \o StringifyElements(v.a) \o "]"
    [] OTHER -> "null"

\* Array.prototype.sort() without comparator: stable, by the string conversion
RECURSIVE InsertSorted(_, _)
InsertSorted(sorted, v) ==
  IF Len(sorted) = 0 THEN <<v>>
  ELSE IF StrLess(StringOf(v), StringOf(sorted[1])) THEN <<v>> \o sorted
  ELSE <<sorted[1]>> \o InsertSorted(Tail(sorted), v)

RECURSIVE SortAcc(_, _)
SortAcc(a, sorted) ==
  IF Len(a) = 0 THEN sorted ELSE SortAcc(Tail(a), InsertSorted(sorted, a[1]))

\* an array left in the order given
sort_asGiven(a) == a

sort(a) == SortAcc(a, <<>>)

\* String.fromCharCode(65 + index) for index 0..25
Letter(index) == CharAt(UpperChars, index + 1)

(***************************************************************************)
(* app/quiz/[id].tsx: normalisation and resolution                         *)
(***************************************************************************)
\* one element of normalizeOptions' map callback; index is 0-based
NormalizeOption(opt, index) ==
  LET id ==
        CASE opt.t = "str" -> opt
          [] opt.t \in {"num", "nan"} -> Str(Letter(index))
          [] opt.t \in {"obj", "arr"} ->
               Or(Get(opt, "id"), Or(Get(opt, "optionId"), Or(Get(opt, "option_id"), Str(Letter(index)))))
          [] OTHER -> Str(Letter(index))
      text ==
        CASE opt.t = "str" -> opt
          [] opt.t \in {"num", "nan"} -> Str(StringOf(opt))
          [] opt.t \in {"obj", "arr"} ->
               Or(Get(opt, "text"), Or(Get(opt, "optionText"), Or(Get(opt, "option_text"),
               Or(Get(opt, "label"), Or(Get(opt, "content"), Or(Get(opt, "value"), Str(Letter(index))))))))
          [] OTHER -> Str(StringOf(Or(opt, Str(""))))
  IN  [id |-> id, text |-> trim(StringOf(text))]

RECURSIVE NormalizeFrom(_, _)
NormalizeFrom(a, index) ==
  IF index >= Len(a) THEN <<>>
  ELSE Let(NormalizeOption(a[index + 1], index), LAMBDA o :
         (IF Len(o.text) > 0 THEN <<o>> ELSE <<>>) \o NormalizeFrom(a, index + 1))

\* normalizeOptions(options): a sequence of [id |-> value, text |-> string]
normalizeOptions(options) ==
  IF ~Truthy(options) \/ ~IsArr(options) THEN <<>> ELSE NormalizeFrom(options.a, 0)

\* the correct answer as delivered, a JSON string never parsed
parseCorrectAnswer_asDelivered(correctAnswer) ==
  IF IsNullish(correctAnswer) THEN Null
  ELSE IF IsStr(correctAnswer) \/ IsArr(correctAnswer) THEN correctAnswer
  ELSE Str(StringOf(correctAnswer))

parseCorrectAnswer(correctAnswer) ==
  IF IsNullish(correctAnswer) THEN Null
  ELSE IF IsStr(correctAnswer)
  THEN Let(JSONparse(correctAnswer.s), LAMBDA parsed :
         IF ~IsThrow(parsed) /\ IsArr(parsed) THEN parsed ELSE correctAnswer)
  ELSE IF IsArr(correctAnswer) THEN correctAnswer
  ELSE Str(StringOf(correctAnswer))

\* options.find((opt) => opt.id.toLowerCase() === answerStr): the position found,
\* 0 when none, -1 when an id without toLowerCase is reached first (TypeError)
FindById(options, answerStr) ==
  Let(FindIndex(options, LAMBDA o : ~IsStr(o.id) \/ toLowerCase(o.id.s) = answerStr), LAMBDA hit :
    IF hit > 0 /\ ~IsStr(options[hit].id) THEN -1 ELSE hit)

\* getSingleCorrectAnswerText with the two index readings tried in the other order
getSingleCorrectAnswerText_zeroBasedFirst(answer, options) ==
  IF IsNullish(answer) THEN Str("")
  ELSE
    Let(toLowerCase(trim(StringOf(answer))), LAMBDA answerStr :
    Let(StringToNumber(answerStr), LAMBDA numAnswer :
      IF answerStr \in {"true", "false"}
      THEN (IF answerStr = "true" THEN Str("True") ELSE Str("False"))
      ELSE IF numAnswer.t = "num" /\ Len(options) > 0 /\ numAnswer.n >= 0 /\ numAnswer.n < 10 * Len(options)
      THEN (IF numAnswer.n % 10 = 0 THEN Str(options[(numAnswer.n \div 10) + 1].text) ELSE Throw)
      ELSE IF numAnswer.t = "num" /\ Len(options) > 0 /\ numAnswer.n > 0 /\ numAnswer.n <= 10 * Len(options)
      THEN (IF numAnswer.n % 10 = 0 THEN Str(options[numAnswer.n \div 10].text) ELSE Throw)
      ELSE
        Let(FindById(options, answerStr), LAMBDA byId :
          IF byId = -1 THEN Throw
          ELSE IF byId > 0 THEN Str(options[byId].text)
          ELSE
            Let(FindIndex(options, LAMBDA o : toLowerCase(o.text) = answerStr), LAMBDA byText :
              IF byText > 0 THEN Str(options[byText].text)
              ELSE IF Len(answerStr) # 1 THEN answer
              ELSE
                Let(FindIndex(options, LAMBDA o : startsWith(toLowerCase(o.id.s), answerStr)), LAMBDA byLetter :
                  IF byLetter > 0 THEN Str(options[byLetter].text) ELSE answer)))))

getSingleCorrectAnswerText(answer, options) ==
  IF IsNullish(answer) THEN Str("")
  ELSE
    Let(toLowerCase(trim(StringOf(answer))), LAMBDA answerStr :
    Let(StringToNumber(answerStr), LAMBDA numAnswer :
      IF answerStr \in {"true", "false"}
      THEN (IF answerStr = "true" THEN Str("True") ELSE Str("False"))
      ELSE IF numAnswer.t = "num" /\ Len(options) > 0 /\ numAnswer.n > 0 /\ numAnswer.n <= 10 * Len(options)
      THEN \* options[numAnswer - 1].text: a fractional index reads undefined.text
           (IF numAnswer.n % 10 = 0 THEN Str(options[numAnswer.n \div 10].text) ELSE Throw)
      ELSE IF numAnswer.t = "num" /\ Len(options) > 0 /\ numAnswer.n >= 0 /\ numAnswer.n < 10 * Len(options)
      THEN (IF numAnswer.n % 10 = 0 THEN Str(options[(numAnswer.n \div 10) + 1].text) ELSE Throw)
      ELSE
        Let(FindById(options, answerStr), LAMBDA byId :
          IF byId = -1 THEN Throw
          ELSE IF byId > 0 THEN Str(options[byId].text)
          ELSE
            Let(FindIndex(options, LAMBDA o : toLowerCase(o.text) = answerStr), LAMBDA byText :
              IF byText > 0 THEN Str(options[byText].text)
              ELSE IF Len(answerStr) # 1 THEN answer
              ELSE
                Let(FindIndex(options, LAMBDA o : startsWith(toLowerCase(o.id.s), answerStr)), LAMBDA byLetter :
                  IF byLetter > 0 THEN Str(options[byLetter].text) ELSE answer)))))

\* parsed.map((ans) => getSingleCorrectAnswerText(ans, options)): the array of
\* results, Throw if a call throws
RECURSIVE MapSingle(_, _)
MapSingle(a, options) ==
  IF Len(a) = 0 THEN Arr(<<>>)
  ELSE Let2(getSingleCorrectAnswerText(a[1], options), MapSingle(Tail(a), options), LAMBDA h, r :
         IF IsThrow(h) \/ IsThrow(r) THEN Throw ELSE Arr(<<h>> \o r.a))

getCorrectAnswerTexts(correctAnswer, options) ==
  Let(parseCorrectAnswer(correctAnswer), LAMBDA parsed :
    IF ~Truthy(parsed) THEN Arr(<<>>)
    ELSE IF IsArr(parsed)
    THEN Let(MapSingle(parsed.a, options), LAMBDA m :
           IF IsThrow(m) THEN Throw ELSE Arr(FilterTruthy(m.a)))
    ELSE Let(getSingleCorrectAnswerText(parsed, options), LAMBDA single :
           IF IsThrow(single) THEN Throw
           ELSE IF Truthy(single) THEN Arr(<<single>>) ELSE Arr(<<>>)))

(***************************************************************************)
(* app/quiz/[id].tsx: correctness evaluation and submission encoding.      *)
(* A question is [id, type, options, correctAnswer]; an absent             *)
(* correctAnswer is Undefined.  User answers are strings.                  *)
(***************************************************************************)
\* answer.split("|").map((s) => s.trim()).filter(Boolean), as an array of strings
RECURSIVE TrimmedNonEmpty(_)
TrimmedNonEmpty(parts) ==
  IF Len(parts) = 0 THEN <<>>
  ELSE Let(trim(parts[1]), LAMBDA s :
         (IF Len(s) > 0 THEN <<Str(s)>> ELSE <<>>) \o TrimmedNonEmpty(Tail(parts)))

SplitPipes(answer) == Arr(TrimmedNonEmpty(split(answer, "|")))

\* try { JSON.parse(answer) } catch { pipe split }: whatever JSON.parse returned
ParseSelection(answer) ==
  Let(JSONparse(answer), LAMBDA parsed :
    IF IsThrow(parsed) THEN SplitPipes(answer) ELSE parsed)

\* a lookup that finds no option
FindOption_none(options, sel) == 0

\* options.find((o) => o.id === sel || o.text === sel)
FindOption(options, sel) ==
  FindIndex(options, LAMBDA o : StrictEq(o.id, sel) \/ StrictEq(Str(o.text), sel))

\* a.map((sel) => { opt = options.find(...); return opt?.text || sel })
RECURSIVE MapToTexts(_, _)
MapToTexts(a, options) ==
  IF Len(a) = 0 THEN <<>>
  ELSE Let(FindOption(options, a[1]), LAMBDA i :
         <<IF i > 0 THEN Or(Str(options[i].text), a[1]) ELSE a[1]>> \o MapToTexts(Tail(a), options))

\* a.map((sel) => { opt = options.find(...); return opt?.id || sel })
RECURSIVE MapToIds(_, _)
MapToIds(a, options) ==
  IF Len(a) = 0 THEN <<>>
  ELSE Let(FindOption(options, a[1]), LAMBDA i :
         <<IF i > 0 THEN Or(options[i].id, a[1]) ELSE a[1]>> \o MapToIds(Tail(a), options))

\* a.map(String)
RECURSIVE MapString(_)
MapString(a) == IF Len(a) = 0 THEN <<>> ELSE <<Str(StringOf(a[1]))>> \o MapString(Tail(a))

\* isAnswerCorrect whose MULTIPLE_CHOICE branch compares with the correct answer as
\* delivered, without resolving it against the options
isAnswerCorrect_unresolved(question, userAnswer) ==
  IF Len(userAnswer) = 0 THEN Bool(FALSE)
  ELSE IF IsNullish(question.correctAnswer) THEN Bool(FALSE)
  ELSE
    Let2(normalizeOptions(question.options), parseCorrectAnswer(question.correctAnswer),
         LAMBDA options, parsedCorrectAnswer :
      IF ~Truthy(parsedCorrectAnswer) THEN Bool(FALSE)
      ELSE IF question.type = "MULTI_SELECT"
      THEN Let(ParseSelection(userAnswer), LAMBDA userSelected :
             LET correctArray == IF IsArr(parsedCorrectAnswer)
                                 THEN MapString(parsedCorrectAnswer.a)
                                 ELSE <<Str(StringOf(parsedCorrectAnswer))>>
             IN  IF ~IsArr(userSelected) THEN Throw
                 ELSE LET userTexts == sort(FilterTruthy(MapToTexts(userSelected.a, options)))
                          correctTexts == sort(FilterTruthy(MapToTexts(correctArray, options)))
                      IN  Bool(JSONstringify(Arr(userTexts)) = JSONstringify(Arr(correctTexts))))
      ELSE IF question.type = "FILL_IN_BLANK"
      THEN LET correct == IF IsArr(parsedCorrectAnswer)
                          THEN (IF Len(parsedCorrectAnswer.a) > 0 THEN parsedCorrectAnswer.a[1] ELSE Undefined)
                          ELSE parsedCorrectAnswer
               correctStr == toLowerCase(trim(StringOf(Or(correct, Str("")))))
               userStr == toLowerCase(trim(userAnswer))
           IN  Bool(userStr = correctStr)
      ELSE IF question.type = "TRUE_FALSE"
      THEN LET correctStr == toLowerCase(StringOf(parsedCorrectAnswer))
               userStr == toLowerCase(trim(userAnswer))
               normalizedCorrect == IF correctStr = "true" THEN "true" ELSE "false"
               normalizedUser == IF userStr = "true" THEN "true" ELSE "false"
           IN  Bool(normalizedUser = normalizedCorrect)
      ELSE Let2(parsedCorrectAnswer, FindOption(options, Str(userAnswer)),
                LAMBDA correctText, userOption :
             LET userText == IF userOption > 0 THEN Or(Str(options[userOption].text), Str(userAnswer))
                             ELSE Str(userAnswer)
             IN  IF IsThrow(correctText) \/ ~IsStr(correctText) THEN Throw
                 ELSE Bool(toLowerCase(userText.s) = toLowerCase(correctText.s))))

isAnswerCorrect(question, userAnswer) ==
  IF Len(userAnswer) = 0 THEN Bool(FALSE)
  ELSE IF IsNullish(question.correctAnswer) THEN Bool(FALSE)
  ELSE
    Let2(normalizeOptions(question.options), parseCorrectAnswer(question.correctAnswer),
         LAMBDA options, parsedCorrectAnswer :
      IF ~Truthy(parsedCorrectAnswer) THEN Bool(FALSE)
      ELSE IF question.type = "MULTI_SELECT"
      THEN Let(ParseSelection(userAnswer), LAMBDA userSelected :
             LET correctArray == IF IsArr(parsedCorrectAnswer)
                                 THEN MapString(parsedCorrectAnswer.a)
                                 ELSE <<Str(StringOf(parsedCorrectAnswer))>>
             IN  \* userSelected.map is not a function unless JSON.parse gave an array
                 IF ~IsArr(userSelected) THEN Throw
                 ELSE LET userTexts == sort(FilterTruthy(MapToTexts(userSelected.a, options)))
                          correctTexts == sort(FilterTruthy(MapToTexts(correctArray, options)))
                      IN  Bool(JSONstringify(Arr(userTexts)) = JSONstringify(Arr(correctTexts))))
      ELSE IF question.type = "FILL_IN_BLANK"
      THEN LET correct == IF IsArr(parsedCorrectAnswer)
                          THEN (IF Len(parsedCorrectAnswer.a) > 0 THEN parsedCorrectAnswer.a[1] ELSE Undefined)
                          ELSE parsedCorrectAnswer
               correctStr == toLowerCase(trim(StringOf(Or(correct, Str("")))))
               userStr == toLowerCase(trim(userAnswer))
           IN  Bool(userStr = correctStr)
      ELSE IF question.type = "TRUE_FALSE"
      THEN LET correctStr == toLowerCase(StringOf(parsedCorrectAnswer))
               userStr == toLowerCase(trim(userAnswer))
               normalizedCorrect == IF correctStr = "true" THEN "true" ELSE "false"
               normalizedUser == IF userStr = "true" THEN "true" ELSE "false"
           IN  Bool(normalizedUser = normalizedCorrect)
      ELSE Let2(getSingleCorrectAnswerText(parsedCorrectAnswer, options),
                FindOption(options, Str(userAnswer)), LAMBDA correctText, userOption :
             LET userText == IF userOption > 0 THEN Or(Str(options[userOption].text), Str(userAnswer))
                             ELSE Str(userAnswer)
             IN  \* correctText.toLowerCase is not a function unless correctText is a string
                 IF IsThrow(correctText) \/ ~IsStr(correctText) THEN Throw
                 ELSE Bool(toLowerCase(userText.s) = toLowerCase(correctText.s))))

\* answers[qId] || "" for an answers map (a function from question ids to strings)
AnswerOf(answers, qId) == IF qId \in DOMAIN answers THEN answers[qId] ELSE ""

\* the value prepareAnswersForSubmit stores for one answered question, Throw when
\* selected.map is not a function
EncodeAnswer(q, answer) ==
  Let(normalizeOptions(q.options), LAMBDA options :
    IF q.type = "FILL_IN_BLANK" THEN Str(trim(answer))
    ELSE IF q.type = "MULTI_SELECT"
    THEN Let(ParseSelection(answer), LAMBDA selected :
           IF ~IsArr(selected) THEN Throw
           ELSE Str(JSONstringify(Arr(FilterTruthy(MapToIds(selected.a, options))))))
    ELSE IF q.type = "TRUE_FALSE"
    THEN (IF toLowerCase(trim(answer)) = "true" THEN Str("true") ELSE Str("false"))
    ELSE Let(FindOption(options, Str(answer)), LAMBDA opt :
           IF opt > 0 THEN Or(options[opt].id, Str(answer)) ELSE Str(answer)))

\* the loop of prepareAnswersForSubmit from question i on; result is the map built
\* so far.  Returns [t |-> "map", m |-> result] or Throw.
RECURSIVE PrepareFrom(_, _, _, _)
PrepareFrom(questions, answers, i, result) ==
  IF i > Len(questions) THEN [t |-> "map", m |-> result]
  ELSE IF Len(AnswerOf(answers, questions[i].id)) = 0 THEN PrepareFrom(questions, answers, i + 1, result)
  ELSE Let(EncodeAnswer(questions[i], AnswerOf(answers, questions[i].id)), LAMBDA e :
         IF IsThrow(e) THEN Throw
         ELSE PrepareFrom(questions, answers, i + 1,
                          [k \in (DOMAIN result) \cup {questions[i].id} |->
                             IF k = questions[i].id THEN e ELSE result[k]]))

EmptyMap == [k \in {} |-> Str("")]

prepareAnswersForSubmit(questions, answers) == PrepareFrom(questions, answers, 1, EmptyMap)

(***************************************************************************)
(* app/quiz/[id].tsx, second QuizScreen module of the file (from line      *)
(* 1522): its own normalizeOptions, resolver, encoder and evaluator.       *)
(***************************************************************************)
\* a ?? b
Coalesce(a, b) == IF IsNullish(a) THEN b ELSE a

NormalizeOption_v2(opt, index) ==
  CASE opt.t = "str" -> [id |-> opt, text |-> opt.s]
    [] opt.t \in {"obj", "arr"} ->
         Let(StringOf(
               Coalesce(Get(opt, "text"), Coalesce(Get(opt, "optionText"), Coalesce(Get(opt, "option_text"),
               Coalesce(Get(opt, "label"), Coalesce(Get(opt, "content"), Coalesce(Get(opt, "body"),
               Coalesce(Get(opt, "title"), Coalesce(Get(opt, "name"), Coalesce(Get(opt, "value"),
               Coalesce(Get(opt, "option"), Str("")))))))))))),
             LAMBDA objText :
               [id |-> IF Len(objText) > 0 THEN Str(objText) ELSE Str(Letter(index)), text |-> objText])
    [] OTHER -> [id |-> Str(Letter(index)), text |-> Letter(index)]

RECURSIVE NormalizeFrom_v2(_, _)
NormalizeFrom_v2(a, index) ==
  IF index >= Len(a) THEN <<>>
  ELSE Let(NormalizeOption_v2(a[index + 1], index), LAMBDA o :
         (IF o.text # "" THEN <<o>> ELSE <<>>) \o NormalizeFrom_v2(a, index + 1))

\* (options || []).map is not a function for a truthy non-array
NormalizeThrows_v2(options) == Truthy(options) /\ ~IsArr(options)

normalizeOptions_v2(options) ==
  IF IsArr(options) THEN NormalizeFrom_v2(options.a, 0) ELSE <<>>

getNormalizedSingleAnswer(answer, options) ==
  IF IsNullish(answer) THEN Str("")
  ELSE
    Let(trim(StringOf(answer)), LAMBDA answerStr :
      Let(StringToNumber(answerStr), LAMBDA index :
        IF index.t = "num" /\ index.n >= 0 /\ index.n < 10 * Len(options)
        THEN \* options[index].text: a fractional index reads undefined.text
             (IF index.n % 10 = 0 THEN Str(options[(index.n \div 10) + 1].text) ELSE Throw)
        ELSE Let(FindIndex(options, LAMBDA o : o.id.s = answerStr \/ o.text = answerStr), LAMBDA matched :
               IF matched > 0 THEN Str(options[matched].text) ELSE Str(answerStr))))

\* a.map((a) => getNormalizedSingleAnswer(a, options)): array of results or Throw
RECURSIVE MapNormalized(_, _)
MapNormalized(a, options) ==
  IF Len(a) = 0 THEN Arr(<<>>)
  ELSE Let2(getNormalizedSingleAnswer(a[1], options), MapNormalized(Tail(a), options), LAMBDA h, r :
         IF IsThrow(h) \/ IsThrow(r) THEN Throw ELSE Arr(<<h>> \o r.a))

getNormalizedCorrectAnswer(correctAnswer, options) ==
  IF IsNullish(correctAnswer) THEN Str("")
  ELSE IF IsArr(correctAnswer)
  THEN Let(MapNormalized(correctAnswer.a, options), LAMBDA m :
         IF IsThrow(m) THEN Throw ELSE Arr(FilterTruthy(m.a)))
  ELSE getNormalizedSingleAnswer(correctAnswer, options)

\* the parsing of a MULTI_SELECT value in prepareAnswersForSubmit (second module)
SelectionArray_v2(val) ==
  IF Len(val) = 0 THEN <<>>
  ELSE Let(JSONparse(val), LAMBDA parsed :
         IF IsThrow(parsed)
         THEN (IF IndexIn("|", val) > 0 THEN SplitPipes(val).a ELSE <<Str(val)>>)
         ELSE IF IsArr(parsed) THEN FilterTruthy(MapString(parsed.a)) ELSE <<>>)

EncodeAnswer_v2(q, val) ==
  IF NormalizeThrows_v2(q.options) THEN Throw
  ELSE
    Let(normalizeOptions_v2(q.options), LAMBDA normalizedOpts :
      IF q.type = "FILL_IN_BLANK" THEN Str(trim(val))
      ELSE IF q.type = "MULTI_SELECT"
      THEN Let(MapNormalized(SelectionArray_v2(val), normalizedOpts), LAMBDA arr :
             IF IsThrow(arr) THEN Throw ELSE Str(JSONstringify(Arr(FilterTruthy(arr.a)))))
      ELSE getNormalizedSingleAnswer(Str(val), normalizedOpts))

RECURSIVE PrepareFrom_v2(_, _, _, _)
PrepareFrom_v2(questions, answers, i, result) ==
  IF i > Len(questions) THEN [t |-> "map", m |-> result]
  ELSE IF Len(questions[i].id) = 0 THEN PrepareFrom_v2(questions, answers, i + 1, result)
  ELSE Let(EncodeAnswer_v2(questions[i], AnswerOf(answers, questions[i].id)), LAMBDA e :
         IF IsThrow(e) THEN Throw
         ELSE PrepareFrom_v2(questions, answers, i + 1,
                             [k \in (DOMAIN result) \cup {questions[i].id} |->
                                IF k = questions[i].id THEN e ELSE result[k]]))

prepareAnswersForSubmit_v2(questions, answers) == PrepareFrom_v2(questions, answers, 1, EmptyMap)

\* Array "every" of the equality test of two sorted arrays of strings
SameSequence(a, b) == Len(a) = Len(b) /\ \A i \in 1..Len(a) : StrictEq(a[i], b[i])

\* normalizedCorrect[0] for an array, normalizedCorrect otherwise
FirstOf(normalizedCorrect) ==
  IF IsArr(normalizedCorrect)
  THEN (IF Len(normalizedCorrect.a) > 0 THEN normalizedCorrect.a[1] ELSE Undefined)
  ELSE normalizedCorrect

isAnswerCorrect_v2(question, answer) ==
  IF IsNullish(question.correctAnswer) THEN Bool(FALSE)
  ELSE IF NormalizeThrows_v2(question.options) THEN Throw
  ELSE
    Let(normalizeOptions_v2(question.options), LAMBDA opts :
      Let(getNormalizedCorrectAnswer(question.correctAnswer, opts), LAMBDA normalizedCorrect :
        IF IsThrow(normalizedCorrect) THEN Throw
        ELSE IF question.type = "MULTI_SELECT"
        THEN Let(JSONparse(IF Len(answer) = 0 THEN "[]" ELSE answer), LAMBDA p :
               Let(MapNormalized(IF ~IsThrow(p) /\ IsArr(p) THEN MapString(p.a) ELSE SplitPipes(answer).a,
                                 opts), LAMBDA userArr :
                 LET correctArr == sort(MapString(
                                     IF IsArr(normalizedCorrect) THEN normalizedCorrect.a
                                     ELSE IF Truthy(normalizedCorrect) THEN <<normalizedCorrect>> ELSE <<>>))
                 IN  IF IsThrow(userArr) THEN Throw
                     ELSE Bool(SameSequence(correctArr, sort(FilterTruthy(userArr.a))))))
        ELSE IF question.type = "FILL_IN_BLANK"
        THEN Bool(toLowerCase(trim(answer)) = toLowerCase(trim(StringOf(Or(FirstOf(normalizedCorrect), Str(""))))))
        ELSE Let(getNormalizedSingleAnswer(Str(answer), opts), LAMBDA normalized :
               IF IsThrow(normalized) THEN Throw
               ELSE Bool(trim(normalized.s) = trim(StringOf(Or(FirstOf(normalizedCorrect), Str(""))))))))

(***************************************************************************)
(* Inputs of the function calls: raw option lists, raw correct answers and *)
(* user answers in the shapes the API delivers them.                       *)
(***************************************************************************)
QuestionTypes == {"MULTIPLE_CHOICE", "MULTI_SELECT", "TRUE_FALSE", "FILL_IN_BLANK"}

ParisLyonNice == Arr(<<Str("Paris"), Str("Lyon"), Str("Nice")>>)

ParisLyon == Arr(<<Obj([id |-> Str("A"), text |-> Str("Paris")]), Obj([id |-> Str("B"), text |-> Str("Lyon")])>>)

CatDog == Arr(<<Obj([id |-> Str("A"), text |-> Str("Cat")]), Obj([id |-> Str("B"), text |-> Str("Dog")])>>)

\* the id of the second option is the text of the first
Colliding == Arr(<<Obj([id |-> Str("A"), text |-> Str("B")]), Obj([id |-> Str("B"), text |-> Str("C")])>>)

\* a numeric id, and an object with a label only
NumericId == Arr(<<Obj([id |-> Num(1), text |-> Str("One")]), Obj([label |-> Str(" Two ")])>>)

\* a boolean-like string, a number, null and a blank string
Mixed == Arr(<<Str("true"), Num(7), Null, Str("  ")>>)

LyonParis == Arr(<<Str("Lyon"), Str("Paris")>>)

TrueFalse == Arr(<<Str("true"), Str("False")>>)

\* ids that read as numbers: the id of the second option is the 1-based position
\* of the first
DigitIds == Arr(<<Obj([id |-> Str("3"), text |-> Str("Three")]), Obj([id |-> Str("1"), text |-> Str("One")])>>)

\* plain strings that read as numbers: the second option is the 1-based position
\* of the first
TwoOne == Arr(<<Str("2"), Str("1")>>)

RawOptionLists ==
  {ParisLyonNice, LyonParis, TrueFalse, TwoOne, ParisLyon, CatDog, Colliding, NumericId, Mixed, DigitIds,
   Arr(<<>>), Null}

\* raw options for the normalisers: the lists above, strings with surrounding or
\* only white space, values that are no array, and objects with a subset of the
\* id and text fields
NormalizerInputs ==
  RawOptionLists \cup
    {Arr(<<Str(" Paris"), Str("Lyon ")>>), Arr(<<Str("Paris"), Str(" "), Str("")>>),
     Undefined, Str("Paris"), Num(0), Num(3), Obj([text |-> Str("Cat")]),
     Arr(<<Obj([id |-> Str("A")]), Obj([text |-> Str(" ")]), Obj([id |-> Str("C"), text |-> Num(7)]),
           Obj([id |-> Str(""), text |-> Str("")]), Bool(FALSE), Arr(<<>>)>>)}

ScalarStrings ==
  {"", " ", "0", "1", "2", "3", "1.5", "-1", "true", " TRUE", "false", "False ", "A", "b", "B", "C", "Paris", "lyon", "Cat", "zz"}

\* lists of scalar answers, for the array, JSON-array and pipe-delimited forms
ScalarLists ==
  {<<Str("A"), Str("B")>>, <<Str("B"), Str("A")>>, <<Str("Cat")>>, <<Str("1"), Str("2")>>,
   <<Str("Paris"), Str("zz")>>, <<Str("true"), Str("A")>>, <<Str("A")>>}

RawAnswers ==
  {Str(x) : x \in ScalarStrings} \cup {Arr(l) : l \in ScalarLists}
    \cup {Undefined, Null, Num(1), Num(0), Bool(TRUE), Arr(<<>>), Str("[\"A\",\"B\"]"), Str("A|B"), Str("[\"Cat\"]")}

UserAnswers ==
  {"", " ", "Paris", "  paris ", "Lyon", "Cat", "A", "B", "C", "true", "False", "0", "1", "5", "null",
   "[\"Dog\",\"Cat\"]", "[\"A\",\"B\"]", "[\"Cat\"]", "[\"C\"]", "[]", "B|A", "Cat|Dog",
   "[\"Cat\",\"Dog\"]", "[\"B\",\"A\"]", "[\"A\",\"Dog\"]", "[\"Dog\",\"A\"]"}

QuestionIds == {"q1", "q2"}

Question(id, type, options, correctAnswer) ==
  [id |-> id, type |-> type, options |-> options, correctAnswer |-> correctAnswer]

Questions == {Question("q1", ty, o, c) : ty \in QuestionTypes, o \in RawOptionLists, c \in RawAnswers}

\* question lists for the encoder: none, one, or one followed by a second question
SecondQuestions == {Question("q2", "FILL_IN_BLANK", Arr(<<>>), Undefined), Question("q2", "MULTI_SELECT", CatDog, Undefined)}

QuestionLists ==
  {<<>>} \cup {<<Question("q1", ty, o, Undefined)>> : ty \in QuestionTypes, o \in {ParisLyon, Colliding}}
         \cup {<<Question("q1", ty, CatDog, Undefined), q2>> : ty \in QuestionTypes, q2 \in SecondQuestions}

\* answers maps: any subset of the ids (and a key that is no question) may be present
AnswerMap(D, a1, a2) == [k \in D |-> IF k = "q1" THEN a1 ELSE IF k = "q2" THEN a2 ELSE "5"]

AnswerMaps ==
  {AnswerMap(D, a1, a2) : D \in SUBSET (QuestionIds \cup {"zz"}), a1 \in UserAnswers, a2 \in {"", "Cat"}}

\* Array.prototype.join("|") of an array of strings
RECURSIVE JoinPipe(_)
JoinPipe(a) ==
  IF Len(a) = 0 THEN "" ELSE a[1].s \o (IF Len(a) = 1 THEN "" ELSE "|" \o JoinPipe(Tail(a)))

IdSet(questions) == {questions[i].id : i \in 1..Len(questions)}

(***************************************************************************)
(* QuizScreen: the attempt session.                                        *)
(***************************************************************************)
\* seconds of the longest countdown of the model
MaxTime == 2

\* manual submissions of one attempt the model follows
MaxSubmits == 2

VARIABLES
  variant,           \* 1: the first QuizScreen module of [id].tsx, 2: the second
  route,             \* "quiz", "result" (router.replace) or "back" (router.back)
  loading,
  quizData,          \* NoQuiz or the data of api.getQuiz
  submitting,
  currentIndex,      \* 0-based
  answers,           \* question id -> string
  checkedQuestions,
  timeLeft,
  timer,             \* timerRef and its interval: state, initial, elapsed, closure
  autoSubmittedRef,
  alert,             \* the confirmation dialog of handleSubmit, with the render it closes over
  inflight,          \* api.submitQuiz requests awaiting their response
  toast,             \* the last showToast
  sent,              \* history: requests sent so far, forced and manual
  expired,           \* history: the countdown has reached zero
  call               \* the last call of a pure function with its result

sessionVars ==
  <<variant, route, loading, quizData, submitting, currentIndex, answers, checkedQuestions,
    timeLeft, timer, autoSubmittedRef, alert, inflight, toast, sent, expired>>

vars == <<sessionVars, call>>

NoQuiz == [present |-> FALSE]

NoAlert == [open |-> FALSE]

NoToast == [type |-> "none", message |-> ""]

NoCall == [op |-> "none"]

\* the render of QuizScreen a callback closes over
Render == [quizData |-> quizData, submitting |-> submitting, answers |-> answers]

\* useEffect(() => { answersRef.current = answers }, [answers]) and its siblings:
\* the refs follow the committed state
answersRef == answers

quizDataRef == quizData

submittingRef == submitting

Init ==
  /\ variant \in {1, 2}
  /\ route = "quiz"
  /\ loading = TRUE
  /\ quizData = NoQuiz
  /\ submitting = FALSE
  /\ currentIndex = 0
  /\ answers = EmptyMap
  /\ checkedQuestions = {}
  /\ timeLeft = 0
  /\ timer = [state |-> "null", initial |-> 0, elapsed |-> 0, closure |-> [quizData |-> NoQuiz, submitting |-> FALSE, answers |-> EmptyMap]]
  /\ autoSubmittedRef = FALSE
  /\ alert = NoAlert
  /\ inflight = <<>>
  /\ toast = NoToast
  /\ sent = [auto |-> 0, manual |-> 0]
  /\ expired = FALSE
  /\ call = NoCall

\* the quizzes the server may deliver: all four question types
QuizQuestions ==
  {<<Question("q1", "MULTI_SELECT", CatDog, Str("[\"A\",\"B\"]")),
     Question("q2", "FILL_IN_BLANK", Arr(<<>>), Str("Paris"))>>,
   <<Question("q1", "MULTIPLE_CHOICE", ParisLyon, Str("1")),
     Question("q2", "TRUE_FALSE", Arr(<<Str("True"), Str("False")>>), Str("true"))>>}

\* answers persisted by the server: none, one answer, or a key that is no question of the quiz
SeedAnswers == {EmptyMap, [q2 |-> "Paris"], [zz |-> "5"]}

FillInputs == {"", "Paris"}

\* startTimer: a fresh interval closing over the render that runs loadQuiz
startTimer(initialSeconds) ==
  [state |-> "running", initial |-> initialSeconds, elapsed |-> 0, closure |-> Render]

\* clearInterval(timerRef.current): timerRef keeps the stale handle
clearInterval(t) == IF t.state = "running" THEN [t EXCEPT !.state = "cleared"] ELSE t

\* loadQuiz, from the response of api.getQuiz on: success
loadQuiz ==
  /\ loading /\ route = "quiz"
  /\ \E questions \in QuizQuestions, timeLimit \in {0, 1}, checkAnswerEnabled \in BOOLEAN,
        timeRemaining \in 0..MaxTime, fallback \in {0, MaxTime}, seed \in SeedAnswers :
       LET remaining ==
             IF variant = 1
             THEN (IF timeRemaining = 0 THEN fallback ELSE timeRemaining)
             ELSE (IF timeRemaining > 0 THEN timeRemaining ELSE fallback)
       IN  /\ quizData' = [present |-> TRUE, timeLimit |-> timeLimit,
                           checkAnswerEnabled |-> checkAnswerEnabled, questions |-> questions]
           /\ answers' = seed
           /\ IF timeLimit # 0 /\ remaining > 0
              THEN timeLeft' = remaining /\ timer' = startTimer(remaining)
              ELSE timeLeft' = timeLeft /\ timer' = timer
  /\ loading' = FALSE
  /\ UNCHANGED <<variant, route, submitting, currentIndex, checkedQuestions, autoSubmittedRef,
                 alert, inflight, toast, sent, expired, call>>

\* loadQuiz: api.getQuiz answered success: false (apiRequest turns every error into
\* that answer).  The first module shows the error and leaves; the second has no
\* else branch and stays on an empty screen.
loadQuizFailed ==
  /\ loading /\ route = "quiz"
  /\ loading' = FALSE
  /\ toast' = IF variant = 1 THEN [type |-> "error", message |-> "Failed to load quiz"] ELSE toast
  /\ route' = IF variant = 1 THEN "back" ELSE route
  /\ UNCHANGED <<variant, quizData, submitting, currentIndex, answers, checkedQuestions, timeLeft,
                 timer, autoSubmittedRef, alert, inflight, sent, expired, call>>

\* the screen is shown and accepts touches
Interactive == route = "quiz" /\ ~loading /\ quizData.present /\ ~alert.open

questions == quizData.questions

currentQuestion == questions[currentIndex + 1]

currentAnswer == AnswerOf(answers, currentQuestion.id)

isQuestionChecked == currentQuestion.id \in checkedQuestions

\* a QuestionView whose inputs stay enabled after the check
showAnswerBlock_never == FALSE

\* QuestionView: showAnswerBlock disables the inputs of the question
showAnswerBlock == quizData.checkAnswerEnabled /\ isQuestionChecked

\* onAnswer: setAnswers((prev) => ({ ...prev, [currentQuestion.id]: val }))
setAnswer(val) ==
  answers' = [k \in (DOMAIN answers) \cup {currentQuestion.id} |->
                IF k = currentQuestion.id THEN val ELSE answers[k]]

\* QuestionView.selectedMulti: the parsed current answer
selectedMulti ==
  IF Len(currentAnswer) = 0 THEN Arr(<<>>)
  ELSE IF variant = 1 THEN ParseSelection(currentAnswer)
  ELSE LET parsed == JSONparse(currentAnswer)
       IN  IF IsThrow(parsed)
           THEN (IF IndexIn("|", currentAnswer) > 0 THEN SplitPipes(currentAnswer) ELSE Arr(<<>>))
           ELSE IF IsArr(parsed) THEN Arr(MapString(parsed.a)) ELSE Arr(<<>>)

\* current.splice(index, 1)
RemoveAt(a, i) == SubSeq(a, 1, i - 1) \o SubSeq(a, i + 1, Len(a))

OptionTexts(q) ==
  LET opts == IF variant = 1 THEN normalizeOptions(q.options) ELSE normalizeOptions_v2(q.options)
  IN  {opts[i].text : i \in 1..Len(opts)}

\* a toggle that pushes the option whether or not it is selected
toggleMultiSelect_pushOnly ==
  /\ Interactive /\ ~showAnswerBlock
  /\ currentQuestion.type = "MULTI_SELECT"
  /\ IsArr(selectedMulti)
  /\ \E optText \in OptionTexts(currentQuestion) :
       setAnswer(JSONstringify(Arr(Append(selectedMulti.a, Str(optText)))))
  /\ UNCHANGED <<variant, route, loading, quizData, submitting, currentIndex, checkedQuestions,
                 timeLeft, timer, autoSubmittedRef, alert, inflight, toast, sent, expired, call>>

toggleMultiSelect ==
  /\ Interactive /\ ~showAnswerBlock
  /\ currentQuestion.type = "MULTI_SELECT"
  /\ IsArr(selectedMulti)
  /\ \E optText \in OptionTexts(currentQuestion) :
       LET current == selectedMulti.a
           index == FindIndex(current, LAMBDA x : StrictEq(x, Str(optText)))
       IN  setAnswer(JSONstringify(Arr(IF index > 0 THEN RemoveAt(current, index)
                                       ELSE Append(current, Str(optText)))))
  /\ UNCHANGED <<variant, route, loading, quizData, submitting, currentIndex, checkedQuestions,
                 timeLeft, timer, autoSubmittedRef, alert, inflight, toast, sent, expired, call>>

selectSingle ==
  /\ Interactive /\ ~showAnswerBlock
  /\ currentQuestion.type \in {"MULTIPLE_CHOICE", "TRUE_FALSE"}
  /\ \E optText \in OptionTexts(currentQuestion) : setAnswer(optText)
  /\ UNCHANGED <<variant, route, loading, quizData, submitting, currentIndex, checkedQuestions,
                 timeLeft, timer, autoSubmittedRef, alert, inflight, toast, sent, expired, call>>

\* TextInput.onChangeText of a FILL_IN_BLANK question
onChangeText ==
  /\ Interactive /\ ~showAnswerBlock
  /\ currentQuestion.type = "FILL_IN_BLANK"
  /\ \E text \in FillInputs : setAnswer(text)
  /\ UNCHANGED <<variant, route, loading, quizData, submitting, currentIndex, checkedQuestions,
                 timeLeft, timer, autoSubmittedRef, alert, inflight, toast, sent, expired, call>>

\* Prev, Next and the question dots
setCurrentIndex ==
  /\ Interactive
  /\ \E i \in 0..(Len(questions) - 1) : i # currentIndex /\ currentIndex' = i
  /\ UNCHANGED <<variant, route, loading, quizData, submitting, answers, checkedQuestions,
                 timeLeft, timer, autoSubmittedRef, alert, inflight, toast, sent, expired, call>>

\* a Check button that is enabled whatever the answer is
hasAnswered_always == TRUE

hasAnswered ==
  IF currentQuestion.type = "MULTI_SELECT"
  THEN LET parsed == JSONparse(currentAnswer)
       IN  ~IsThrow(parsed) /\ IsArr(parsed) /\ Len(parsed.a) > 0
  ELSE IF variant = 1 THEN Len(currentAnswer) > 0 ELSE Len(trim(currentAnswer)) > 0

\* a handleCheckAnswer that builds the set anew instead of copying the previous one
handleCheckAnswer_onlyCurrent ==
  /\ Interactive
  /\ quizData.checkAnswerEnabled /\ ~isQuestionChecked
  /\ hasAnswered /\ (variant = 1 => ~submitting)
  /\ checkedQuestions' = {currentQuestion.id}
  /\ UNCHANGED <<variant, route, loading, quizData, submitting, currentIndex, answers, toast,
                 timeLeft, timer, autoSubmittedRef, alert, inflight, sent, expired, call>>

\* the Check button and handleCheckAnswer
handleCheckAnswer ==
  /\ Interactive
  /\ quizData.checkAnswerEnabled /\ ~isQuestionChecked
  /\ hasAnswered /\ (variant = 1 => ~submitting)
  /\ LET correct == IF variant = 1 THEN isAnswerCorrect(currentQuestion, currentAnswer)
                    ELSE isAnswerCorrect_v2(currentQuestion, currentAnswer)
     IN  /\ ~IsThrow(correct)
         /\ checkedQuestions' = checkedQuestions \cup {currentQuestion.id}
         /\ toast' = IF variant = 2 THEN toast
                     ELSE IF correct.b THEN [type |-> "success", message |-> "Correct answer!"]
                     ELSE [type |-> "error", message |-> "Incorrect answer"]
  /\ UNCHANGED <<variant, route, loading, quizData, submitting, currentIndex, answers,
                 timeLeft, timer, autoSubmittedRef, alert, inflight, sent, expired, call>>

\* the number handleSubmit reports in the confirmation dialog
unanswered ==
  IF variant = 1
  THEN Cardinality({i \in 1..Len(questions) : Len(AnswerOf(answers, questions[i].id)) = 0})
  ELSE Len(questions) - Cardinality({k \in DOMAIN answers : Len(answers[k]) > 0})

\* the Submit button and handleSubmit(false): the confirmation dialog opens
handleSubmit ==
  /\ Interactive
  /\ ~(quizData.checkAnswerEnabled /\ ~isQuestionChecked)
  /\ currentIndex = Len(questions) - 1
  /\ ~submitting
  /\ sent.manual < MaxSubmits
  /\ alert' = [open |-> TRUE, unanswered |-> unanswered, closure |-> Render]
  /\ UNCHANGED <<variant, route, loading, quizData, submitting, currentIndex, answers, checkedQuestions,
                 timeLeft, timer, autoSubmittedRef, inflight, toast, sent, expired, call>>

\* "Cancel" of the confirmation dialog
alertCancel ==
  /\ alert.open
  /\ alert' = NoAlert
  /\ UNCHANGED <<variant, route, loading, quizData, submitting, currentIndex, answers, checkedQuestions,
                 timeLeft, timer, autoSubmittedRef, inflight, toast, sent, expired, call>>

Prepared(qs, ans) ==
  IF variant = 1 THEN prepareAnswersForSubmit(qs, ans) ELSE prepareAnswersForSubmit_v2(qs, ans)

Request(payload, auto) == [payload |-> payload, auto |-> auto, answersBefore |-> answers]

\* "Submit" of the confirmation dialog: doSubmit of the render the dialog closes over,
\* up to the await of api.submitQuiz
doSubmit ==
  /\ alert.open
  /\ alert.closure.quizData.present
  /\ alert' = NoAlert
  /\ timer' = clearInterval(timer)
  /\ LET prepared == Prepared(alert.closure.quizData.questions, alert.closure.answers)
     IN  IF IsThrow(prepared)
         THEN /\ toast' = [type |-> "error", message |-> "Failed to submit quiz"]
              /\ submitting' = FALSE
              /\ UNCHANGED <<inflight, sent>>
         ELSE /\ submitting' = TRUE
              /\ inflight' = Append(inflight, Request(prepared.m, FALSE))
              /\ sent' = [sent EXCEPT !.manual = @ + 1]
              /\ toast' = toast
  /\ UNCHANGED <<variant, route, loading, quizData, currentIndex, answers, checkedQuestions,
                 timeLeft, autoSubmittedRef, expired, call>>

\* the interval callback of startTimer; elapsed wall-clock time may exceed one second
timerTick ==
  /\ timer.state = "running" /\ route = "quiz"
  /\ \E gap \in 1..MaxTime :
       LET elapsed == IF timer.elapsed + gap > timer.initial THEN timer.initial ELSE timer.elapsed + gap
           remaining == timer.initial - elapsed
           cl == timer.closure
           \* first module: handleTimeUp, handleSubmit(true) and doSubmit of the closed-over render
           fires1 == quizDataRef.present /\ ~cl.submitting
           sends1 == fires1 /\ cl.quizData.present
           prepared1 == Prepared(cl.quizData.questions, cl.answers)
           \* second module: the one-shot flag and doSubmitFromTimer
           sends2 == ~autoSubmittedRef /\ quizDataRef.present /\ ~submittingRef
           prepared2 == Prepared(quizDataRef.questions, answersRef)
           sends == IF variant = 1 THEN sends1 ELSE sends2
           prepared == IF variant = 1 THEN prepared1 ELSE prepared2
       IN  /\ timeLeft' = remaining
           /\ IF remaining > 0
              THEN /\ timer' = [timer EXCEPT !.elapsed = elapsed]
                   /\ UNCHANGED <<submitting, inflight, toast, sent, expired, autoSubmittedRef>>
              ELSE /\ timer' = [timer EXCEPT !.elapsed = elapsed, !.state = "null"]
                   /\ expired' = TRUE
                   /\ autoSubmittedRef' = (IF variant = 2 THEN TRUE ELSE autoSubmittedRef)
                   /\ IF sends /\ ~IsThrow(prepared)
                      THEN /\ submitting' = TRUE
                           /\ inflight' = Append(inflight, Request(prepared.m, TRUE))
                           /\ sent' = [sent EXCEPT !.auto = @ + 1]
                           /\ toast' = IF variant = 1
                                       THEN [type |-> "info", message |-> "Time's up! Submitting quiz..."]
                                       ELSE toast
                      ELSE /\ UNCHANGED <<submitting, inflight, sent>>
                           /\ toast' = IF sends
                                       THEN [type |-> "error", message |-> "Failed to submit quiz"]
                                       ELSE IF variant = 1 /\ fires1
                                       THEN [type |-> "info", message |-> "Time's up! Submitting quiz..."]
                                       ELSE toast
  /\ UNCHANGED <<variant, route, loading, quizData, currentIndex, answers, checkedQuestions, alert, call>>

\* the response of api.submitQuiz: res.success && res.data
submitSucceeded ==
  /\ \E i \in 1..Len(inflight) :
       /\ inflight' = RemoveAt(inflight, i)
       /\ toast' = IF inflight[i].auto /\ variant = 2
                   THEN [type |-> "info", message |-> "Time's up! Quiz submitted."]
                   ELSE [type |-> "success", message |-> "Quiz submitted!"]
  /\ route' = "result"
  /\ timer' = IF route = "quiz" THEN clearInterval(timer) ELSE timer
  /\ UNCHANGED <<variant, loading, quizData, submitting, currentIndex, answers, checkedQuestions,
                 timeLeft, autoSubmittedRef, alert, sent, expired, call>>

\* a catch block that shows the error and leaves submitting set
submitFailed_keepsSubmitting ==
  /\ \E i \in 1..Len(inflight) : inflight' = RemoveAt(inflight, i)
  /\ toast' = [type |-> "error", message |-> "Failed to submit quiz"]
  /\ UNCHANGED <<variant, route, loading, quizData, submitting, currentIndex, answers, checkedQuestions,
                 timeLeft, timer, autoSubmittedRef, alert, sent, expired, call>>

\* the response of api.submitQuiz: apiRequest caught a network error or the server
\* answered success: false; doSubmit throws and its catch block runs
submitFailed ==
  /\ \E i \in 1..Len(inflight) : inflight' = RemoveAt(inflight, i)
  /\ toast' = [type |-> "error", message |-> "Failed to submit quiz"]
  /\ submitting' = FALSE
  /\ UNCHANGED <<variant, route, loading, quizData, currentIndex, answers, checkedQuestions,
                 timeLeft, timer, autoSubmittedRef, alert, sent, expired, call>>

\* the back arrow: router.back() unmounts the screen, the effect cleanup clears the interval
goBack ==
  /\ Interactive
  /\ route' = "back"
  /\ timer' = clearInterval(timer)
  /\ UNCHANGED <<variant, loading, quizData, submitting, currentIndex, answers, checkedQuestions,
                 timeLeft, autoSubmittedRef, alert, inflight, toast, sent, expired, call>>

Next ==
  \/ loadQuiz
  \/ loadQuizFailed
  \/ toggleMultiSelect
  \/ selectSingle
  \/ onChangeText
  \/ setCurrentIndex
  \/ handleCheckAnswer
  \/ handleSubmit
  \/ alertCancel
  \/ doSubmit
  \/ timerTick
  \/ submitSucceeded
  \/ submitFailed
  \/ goBack

Spec == Init /\ [][Next]_vars

(***************************************************************************)
(* Calls of the pure functions on the inputs above                         *)
(***************************************************************************)
Call_normalizeOptions ==
  /\ call = NoCall
  /\ \E o \in NormalizerInputs :
       call' = [op |-> "normalizeOptions", options |-> o, result |-> normalizeOptions(o)]
  /\ UNCHANGED sessionVars

Call_getSingleCorrectAnswerText ==
  /\ call = NoCall
  /\ \E a \in RawAnswers, o \in RawOptionLists :
       call' = [op |-> "getSingleCorrectAnswerText", answer |-> a, options |-> o,
                result |-> getSingleCorrectAnswerText(a, normalizeOptions(o))]
  /\ UNCHANGED sessionVars

Call_getCorrectAnswerTexts ==
  /\ call = NoCall
  /\ \E a \in RawAnswers, o \in RawOptionLists :
       call' = [op |-> "getCorrectAnswerTexts", correctAnswer |-> a, options |-> o,
                result |-> getCorrectAnswerTexts(a, normalizeOptions(o))]
  /\ UNCHANGED sessionVars

\* getCorrectAnswerTexts on the three encodings of one list of scalar answers
Call_getCorrectAnswerTextsOfEncodings ==
  /\ call = NoCall
  /\ \E elems \in ScalarLists, o \in RawOptionLists :
       call' = [op |-> "getCorrectAnswerTextsOfEncodings", elems |-> elems, options |-> o,
                native |-> getCorrectAnswerTexts(Arr(elems), normalizeOptions(o)),
                json |-> getCorrectAnswerTexts(Str(JSONstringify(Arr(elems))), normalizeOptions(o)),
                pipe |-> getCorrectAnswerTexts(Str(JoinPipe(elems)), normalizeOptions(o))]
  /\ UNCHANGED sessionVars

Call_isAnswerCorrect ==
  /\ call = NoCall
  /\ \E q \in Questions, u \in UserAnswers :
       call' = [op |-> "isAnswerCorrect", question |-> q, userAnswer |-> u, result |-> isAnswerCorrect(q, u)]
  /\ UNCHANGED sessionVars

Call_prepareAnswersForSubmit ==
  /\ call = NoCall
  /\ \E qs \in QuestionLists, ans \in AnswerMaps :
       call' = [op |-> "prepareAnswersForSubmit", questions |-> qs, answers |-> ans,
                result |-> prepareAnswersForSubmit(qs, ans)]
  /\ UNCHANGED sessionVars

\* prepareAnswersForSubmit of one answered question, and isAnswerCorrect of the
\* emitted value against the same question; an emitted value that is no string
\* (the numeric id of an option) is not graded again
Call_encodeThenGrade ==
  /\ call = NoCall
  /\ \E q \in Questions, u \in UserAnswers \ {""} :
       \E emitted \in {prepareAnswersForSubmit(<<q>>, [k \in {q.id} |-> u])} :
          call' = [op |-> "encodeThenGrade", question |-> q, userAnswer |-> u,
                   correct |-> isAnswerCorrect(q, u),
                   emitted |-> emitted,
                   regraded |-> IF IsThrow(emitted) THEN Throw
                                ELSE IF ~IsStr(emitted.m[q.id]) THEN Undefined
                                ELSE isAnswerCorrect(q, emitted.m[q.id].s)]
  /\ UNCHANGED sessionVars

Call_normalizeOptions_v2 ==
  /\ call = NoCall
  /\ \E o \in NormalizerInputs :
       call' = [op |-> "normalizeOptions_v2", options |-> o,
                result |-> IF NormalizeThrows_v2(o) THEN Throw ELSE Arr(normalizeOptions_v2(o))]
  /\ UNCHANGED sessionVars

Call_getNormalizedSingleAnswer ==
  /\ call = NoCall
  /\ \E a \in RawAnswers, o \in RawOptionLists :
       call' = [op |-> "getNormalizedSingleAnswer", answer |-> a, options |-> o,
                result |-> getNormalizedSingleAnswer(a, normalizeOptions_v2(o))]
  /\ UNCHANGED sessionVars

Call_isAnswerCorrect_v2 ==
  /\ call = NoCall
  /\ \E q \in Questions, u \in UserAnswers :
       call' = [op |-> "isAnswerCorrect_v2", question |-> q, userAnswer |-> u,
                result |-> isAnswerCorrect_v2(q, u)]
  /\ UNCHANGED sessionVars

Call_prepareAnswersForSubmit_v2 ==
  /\ call = NoCall
  /\ \E qs \in QuestionLists, ans \in AnswerMaps :
       call' = [op |-> "prepareAnswersForSubmit_v2", questions |-> qs, answers |-> ans,
                result |-> prepareAnswersForSubmit_v2(qs, ans)]
  /\ UNCHANGED sessionVars

\* the call returns to its caller
Return ==
  /\ call # NoCall
  /\ call' = NoCall
  /\ UNCHANGED sessionVars

NextCalls ==
  \/ Return
  \/ Call_normalizeOptions
  \/ Call_getSingleCorrectAnswerText
  \/ Call_getCorrectAnswerTexts
  \/ Call_getCorrectAnswerTextsOfEncodings
  \/ Call_isAnswerCorrect
  \/ Call_prepareAnswersForSubmit
  \/ Call_encodeThenGrade
  \/ Call_normalizeOptions_v2
  \/ Call_getNormalizedSingleAnswer
  \/ Call_isAnswerCorrect_v2
  \/ Call_prepareAnswersForSubmit_v2

InitCalls == Init /\ variant = 1

SpecCalls == InitCalls /\ [][NextCalls]_vars

(***************************************************************************)
(* Claims                                                                  *)
(***************************************************************************)

\* C1: the map returned by prepareAnswersForSubmit has exactly the question
\* ids as its keys: every question of the quiz has an entry, answered or
\* not, and no other key appears.
C1_KeySetIsQuestionIds ==
  (call.op = "prepareAnswersForSubmit" /\ ~IsThrow(call.result))
    => DOMAIN call.result.m = IdSet(call.questions)
\* C2: at most one api.submitQuiz request of the attempt is in flight at any
\* time, whatever the interleaving of Submit taps, dialog presses and the
\* countdown reaching zero.
C2_AtMostOneSubmitInFlight == Len(inflight) <= 1

\* C3: once the countdown has reached zero, the forced submission has been
\* sent, and it has been sent exactly once.
C3_ExpiryForcesOneSubmission == expired => sent.auto = 1

\* a response of api.submitQuiz arrives and the attempt does not end: the failure path
FailureStep == Len(inflight') < Len(inflight) /\ route' # "result"

\* C4 (as stated): when a submission fails the error is shown, submitting is
\* false, a new submission is possible, and the answers map is the one the
\* attempt had when that submission started.
C4_AnswersAsBeforeSubmission ==
  [][FailureStep =>
       /\ toast'.type = "error" /\ ~submitting' /\ quizData'.present
       /\ \E i \in 1..Len(inflight) :
            inflight' = RemoveAt(inflight, i) /\ answers' = inflight[i].answersBefore]_vars

\* C4 (amended): when a submission fails the error is shown, submitting is
\* false, a new submission is possible, and the failure changes no answer: the
\* answers map keeps what it held when the response arrived, edits made while
\* the request was in flight included.
C4_FailureChangesNoAnswer ==
  [][FailureStep =>
       (toast'.type = "error" /\ ~submitting' /\ quizData'.present /\ answers' = answers)]_vars

\* a submission of an attempt with answers has failed and the screen is back to Active
C4_FailedAndActive ==
  /\ route = "quiz" /\ sent.manual + sent.auto > 0 /\ Len(inflight) = 0
  /\ toast.type = "error" /\ ~submitting /\ quizData.present
  /\ \E k \in DOMAIN answers : Len(answers[k]) > 0

\* C5: isAnswerCorrect returns false, without an exception, whenever the
\* question has no correctAnswer (undefined or null) or the user answer is the
\* empty string, for every question type and every options value.
C5_FalseWithoutCorrectAnswerOrAnswer ==
  (/\ call.op \in {"isAnswerCorrect", "isAnswerCorrect_v2"}
   /\ (IsNullish(call.question.correctAnswer) \/ call.userAnswer = ""))
    => call.result = Bool(FALSE)

\* C6: getSingleCorrectAnswerText and getCorrectAnswerTexts raise no exception,
\* for every raw answer and every option list normalizeOptions produces.
C6_ResolversRaiseNothing ==
  call.op \in {"getSingleCorrectAnswerText", "getCorrectAnswerTexts"} => ~IsThrow(call.result)

\* C7: getCorrectAnswerTexts gives the same texts for a list of scalar answers
\* delivered as a native array, as a JSON array string and as a pipe-delimited
\* string.
C7_EncodingsResolveAlike ==
  call.op = "getCorrectAnswerTextsOfEncodings" => (call.native = call.json /\ call.json = call.pipe)

\* C8: for a MULTI_SELECT question, a user answer that isAnswerCorrect accepts
\* is still accepted after prepareAnswersForSubmit has encoded it.
C8_EncodedAnswerStaysCorrect ==
  (/\ call.op = "encodeThenGrade" /\ call.question.type = "MULTI_SELECT"
   /\ call.correct = Bool(TRUE))
    => call.regraded = Bool(TRUE)

PlainStrings(options) ==
  /\ IsArr(options) /\ Len(options.a) > 0
  /\ \A i \in 1..Len(options.a) : IsStr(options.a[i]) /\ Len(trim(options.a[i].s)) > 0

\* C10: with options that are plain strings and the correct answer "0", the
\* correct answer resolves to the text of the first option, and a MULTIPLE_CHOICE
\* question with that correct answer is answered correctly by the text of the
\* first option ("Paris" for ["Paris", "Lyon", "Nice"]).
C10_ZeroIsFirstOption ==
  /\ (/\ call.op = "getSingleCorrectAnswerText"
      /\ call.answer = Str("0") /\ PlainStrings(call.options))
       => call.result = Str(trim(call.options.a[1].s))
  /\ (/\ call.op = "isAnswerCorrect"
      /\ call.question.type = "MULTIPLE_CHOICE"
      /\ call.question.correctAnswer = Str("0") /\ PlainStrings(call.question.options)
      /\ call.userAnswer = trim(call.question.options.a[1].s))
       => call.result = Bool(TRUE)

\* the MULTIPLE_CHOICE question over ["Paris", "Lyon", "Nice"] with correct
\* answer "0" has been graded for the answer "Paris", as correct
C10_ParisGraded ==
  /\ call.op = "isAnswerCorrect"
  /\ call.question = Question("q1", "MULTIPLE_CHOICE", ParisLyonNice, Str("0"))
  /\ call.userAnswer = "Paris"
  /\ call.result = Bool(TRUE)

\* C11: for a raw option list made of strings only, normalizeOptions returns one
\* option per string, in the order given, and the id of each option is the
\* string it came from and equals its text.
C11_StringOptionsKeepIdAsText ==
  (/\ call.op = "normalizeOptions" /\ IsArr(call.options)
   /\ \A i \in 1..Len(call.options.a) : IsStr(call.options.a[i]))
    => /\ Len(call.result) = Len(call.options.a)
       /\ \A i \in 1..Len(call.result) :
            /\ call.result[i].id = call.options.a[i]
            /\ Str(call.result[i].text) = call.result[i].id

\* C12: for the MULTI_SELECT question with options [{A, Cat}, {B, Dog}] and the
\* correct answer ["A","B"] (as a JSON string or as an array, in either order),
\* isAnswerCorrect is true for the two selections in either order, each given
\* as option text or as option id, as a JSON array or pipe-delimited.
C12_BothSelectionsInAnyOrderAndForm ==
  (/\ call.op = "isAnswerCorrect"
   /\ call.question.type = "MULTI_SELECT" /\ call.question.options = CatDog
   /\ call.question.correctAnswer \in
        {Str("[\"A\",\"B\"]"), Arr(<<Str("A"), Str("B")>>), Arr(<<Str("B"), Str("A")>>)}
   /\ call.userAnswer \in
        {"[\"A\",\"B\"]", "[\"B\",\"A\"]", "[\"Cat\",\"Dog\"]", "[\"Dog\",\"Cat\"]",
         "[\"A\",\"Dog\"]", "[\"Dog\",\"A\"]", "B|A", "Cat|Dog"})
    => call.result = Bool(TRUE)

\* the answer ["Dog","Cat"] (texts, in reverse order) has been graded against
\* the correct answer ["A","B"] over [{A, Cat}, {B, Dog}], as correct
C12_DogCatGraded ==
  /\ call.op = "isAnswerCorrect"
  /\ call.question = Question("q1", "MULTI_SELECT", CatDog, Str("[\"A\",\"B\"]"))
  /\ call.userAnswer = "[\"Dog\",\"Cat\"]"
  /\ call.result = Bool(TRUE)

\* C13 (as claimed): for a FILL_IN_BLANK question with a correct answer c (its
\* first element when c is an array or a JSON-array string), isAnswerCorrect(q, u)
\* is true exactly when the trimmed lowercase u equals the trimmed lowercase c,
\* for every u and every c.
C13_TrueExactlyWhenNormalizedEqual ==
  (/\ call.op = "isAnswerCorrect" /\ call.question.type = "FILL_IN_BLANK"
   /\ ~IsNullish(call.question.correctAnswer))
    => Let(call.question.correctAnswer, LAMBDA c :
         Let(IF IsStr(c) /\ IsArr(JSONparse(c.s)) THEN JSONparse(c.s) ELSE c, LAMBDA p :
           (IF IsArr(p) THEN Len(p.a) > 0 /\ IsStr(p.a[1]) ELSE TRUE)
             => call.result =
                  Bool(trim(toLowerCase(call.userAnswer)) =
                       trim(toLowerCase(IF IsArr(p) THEN p.a[1].s ELSE StringOf(c))))))

\* C13 (amended): the same for a non-empty u and a correct answer other than the
\* empty string; an empty array of correct answers counts as the empty text.
\* isAnswerCorrect is false for the empty u and for the correct answer "",
\* whatever the other side is.
C13_NonEmptySidesCompareNormalized ==
  (/\ call.op = "isAnswerCorrect" /\ call.question.type = "FILL_IN_BLANK"
   /\ ~IsNullish(call.question.correctAnswer))
    => Let(call.question.correctAnswer, LAMBDA c :
         Let(IF IsStr(c) /\ IsArr(JSONparse(c.s)) THEN JSONparse(c.s) ELSE c, LAMBDA p :
           IF call.userAnswer = "" \/ c = Str("") THEN call.result = Bool(FALSE)
           ELSE (IF IsArr(p) THEN Len(p.a) = 0 \/ IsStr(p.a[1]) ELSE TRUE)
                  => call.result =
                       Bool(trim(toLowerCase(call.userAnswer)) =
                            trim(toLowerCase(IF ~IsArr(p) THEN StringOf(c)
                                             ELSE IF Len(p.a) = 0 THEN "" ELSE p.a[1].s)))))

\* "  paris " has been graded against the correct answer "Paris", as correct,
\* and "A" against the JSON string ["A","B"], as correct
C13_PaddedLowercaseGraded ==
  /\ call.op = "isAnswerCorrect" /\ call.question.type = "FILL_IN_BLANK"
  /\ \/ call.question.correctAnswer = Str("Paris") /\ call.userAnswer = "  paris "
     \/ call.question.correctAnswer = Str("[\"A\",\"B\"]") /\ call.userAnswer = "A"
  /\ call.result = Bool(TRUE)

\* C14: getSingleCorrectAnswerText returns "True" for a value that is "true"
\* up to letter case and surrounding white space (the boolean true included)
\* and "False" for one that is "false", whatever the options are, also when
\* an option has that value as its id or text.
C14_TrueFalseResolveToCapitalised ==
  call.op = "getSingleCorrectAnswerText"
    => /\ call.answer \in {Str("true"), Str(" TRUE"), Bool(TRUE)} => call.result = Str("True")
       /\ call.answer \in {Str("false"), Str("False ")} => call.result = Str("False")

\* " TRUE" and "False " have been resolved over the options ["true", "False"]
C14_PaddedTrueResolved ==
  /\ call.op = "getSingleCorrectAnswerText" /\ call.options = TrueFalse
  /\ \/ call.answer = Str(" TRUE") /\ call.result = Str("True")
     \/ call.answer = Str("False ") /\ call.result = Str("False")

\* C15: for every raw input, normalizeOptions (of either module) returns a list
\* without raising, and every option of the list has a text that is not empty
\* after trimming.
C15_EveryOptionHasText ==
  /\ call.op = "normalizeOptions"
       => \A i \in 1..Len(call.result) : Len(trim(call.result[i].text)) > 0
  /\ call.op = "normalizeOptions_v2"
       => /\ ~IsThrow(call.result)
          /\ \A i \in 1..Len(call.result.a) : Len(trim(call.result.a[i].text)) > 0

\* C16: for an answered MULTI_SELECT question over [{A, Cat}, {B, Dog}],
\* prepareAnswersForSubmit (of either module) emits the JSON array of the ids
\* of the selected options, in the order selected, whether the selections are
\* stored as texts or ids, as a JSON array or pipe-delimited.
C16_SelectionsEmittedAsIds ==
  (/\ call.op \in {"prepareAnswersForSubmit", "prepareAnswersForSubmit_v2"}
   /\ Len(call.questions) > 0
   /\ call.questions[1].type = "MULTI_SELECT" /\ call.questions[1].options = CatDog
   /\ "q1" \in DOMAIN call.answers)
    => \A pair \in {<<"[\"Dog\",\"Cat\"]", "[\"B\",\"A\"]">>, <<"[\"Cat\",\"Dog\"]", "[\"A\",\"B\"]">>,
                    <<"[\"A\",\"B\"]", "[\"A\",\"B\"]">>, <<"[\"B\",\"A\"]", "[\"B\",\"A\"]">>,
                    <<"[\"A\",\"Dog\"]", "[\"A\",\"B\"]">>, <<"[\"Dog\",\"A\"]", "[\"B\",\"A\"]">>,
                    <<"[\"Cat\"]", "[\"A\"]">>, <<"B|A", "[\"B\",\"A\"]">>, <<"Cat|Dog", "[\"A\",\"B\"]">>} :
         call.answers["q1"] = pair[1]
           => /\ ~IsThrow(call.result)
              /\ "q1" \in DOMAIN call.result.m
              /\ call.result.m["q1"] = Str(pair[2])

C18_FirstElementDecides ==
  (/\ call.op = "isAnswerCorrect" /\ call.question.type = "MULTIPLE_CHOICE"
   /\ call.userAnswer # "" /\ Truthy(call.question.correctAnswer))
    => Let2(normalizeOptions(call.question.options),
            IF IsStr(call.question.correctAnswer) /\ IsArr(JSONparse(call.question.correctAnswer.s))
            THEN JSONparse(call.question.correctAnswer.s) ELSE call.question.correctAnswer,
            LAMBDA opts, p :
         (IF IsArr(p) THEN Len(p.a) > 0 ELSE TRUE)
           => Let2(getSingleCorrectAnswerText(IF IsArr(p) THEN p.a[1] ELSE p, opts),
                   FindOption(opts, Str(call.userAnswer)), LAMBDA correctText, userOption :
                IsStr(correctText)
                  => call.result =
                       Bool(toLowerCase(IF userOption > 0 THEN opts[userOption].text ELSE call.userAnswer)
                              = toLowerCase(correctText.s))))

\* C19: for a TRUE_FALSE question with a present, non-empty correct answer c
\* and a non-empty user answer u, isAnswerCorrect is true exactly when u and c have
\* the same token, where the token of a value is "true" when the value is
\* "true" up to letter case and surrounding white space and "false" otherwise.
C19_SameTokenOnBothSides ==
  (/\ call.op = "isAnswerCorrect" /\ call.question.type = "TRUE_FALSE"
   /\ ~IsNullish(call.question.correctAnswer) /\ call.question.correctAnswer # Str("")
   /\ call.userAnswer # "")
    => call.result =
         Bool((toLowerCase(trim(call.userAnswer)) = "true")
                = (toLowerCase(trim(StringOf(call.question.correctAnswer))) = "true"))

C21_CheckedOnlyByCheckAnswer ==
  [][(variant = 1 /\ checkedQuestions' # checkedQuestions)
       => /\ route = "quiz" /\ ~loading /\ quizData.present /\ ~submitting
          /\ quizData.checkAnswerEnabled
          /\ currentQuestion.id \notin checkedQuestions
          /\ checkedQuestions' = checkedQuestions \cup {currentQuestion.id}
          /\ IF currentQuestion.type = "MULTI_SELECT"
             THEN /\ IsArr(JSONparse(AnswerOf(answers, currentQuestion.id)))
                  /\ Len(JSONparse(AnswerOf(answers, currentQuestion.id)).a) > 0
             ELSE AnswerOf(answers, currentQuestion.id) # ""]_vars

\* in the first module both questions of a quiz have been checked
C21_BothChecked == variant = 1 /\ checkedQuestions = {"q1", "q2"}

\* C22: no step removes a question id from checkedQuestions, whether it edits
\* an answer, navigates, checks another question or ends a failed submission,
\* and the step that adds an id leaves the answers, the time remaining and
\* submitting as they were.
C22_CheckedOnlyGrows ==
  [][/\ checkedQuestions \subseteq checkedQuestions'
     /\ (checkedQuestions' # checkedQuestions
           => answers' = answers /\ timeLeft' = timeLeft /\ submitting' = submitting)]_vars

\* the first question is still checked after the user moved on to the second,
\* answered and checked it, and a confirmed submission failed
C22_CheckedSurvivesFailure ==
  /\ route = "quiz" /\ checkedQuestions = {"q1", "q2"}
  /\ currentIndex = 1 /\ AnswerOf(answers, "q2") # ""
  /\ sent.manual > 0 /\ Len(inflight) = 0 /\ ~submitting /\ toast.message = "Failed to submit quiz"

\* C23: with checkAnswerEnabled, no step changes the stored answer of a
\* question that is already checked: the answer it had when it was checked is
\* the answer it has in every later state of the attempt.
C23_CheckedAnswerFrozen ==
  [][(quizData.present /\ quizData.checkAnswerEnabled)
       => \A q \in checkedQuestions : AnswerOf(answers', q) = AnswerOf(answers, q)]_vars

\* the checked first question is on screen again, with its answer block shown,
\* while the second question is still open
C23_CheckedOnScreen ==
  /\ Interactive /\ quizData.checkAnswerEnabled /\ ~submitting
  /\ checkedQuestions = {"q1"} /\ currentIndex = 0 /\ showAnswerBlock
  /\ AnswerOf(answers, "q2") # ""

\* C24: a user-triggered request is sent only by a step that closes an open
\* confirmation dialog, and the unanswered count the dialog reports is the
\* number of questions of the quiz whose answer is absent or empty in the
\* answers map, whatever other keys that map holds.
C24_ConfirmedAndCounted ==
  [][/\ sent'.manual > sent.manual => alert.open /\ ~alert'.open
     /\ (~alert.open /\ alert'.open)
          => alert'.unanswered =
               Cardinality({i \in 1..Len(quizData.questions) :
                              AnswerOf(answers, quizData.questions[i].id) = ""})]_vars

\* C25: for every question type, every present correct answer and every
\* non-empty user answer, isAnswerCorrect returns a boolean and raises nothing;
\* this includes a MULTI_SELECT user answer that is JSON but no array ("5",
\* "true", "null") and a MULTIPLE_CHOICE correct answer that is an array.
C25_GradingRaisesNothing ==
  (/\ call.op = "isAnswerCorrect" /\ call.userAnswer # ""
   /\ ~IsNullish(call.question.correctAnswer))
    => call.result \in {Bool(TRUE), Bool(FALSE)}

\* C26: for a MULTIPLE_CHOICE question whose options are distinct non-empty
\* strings and whose correct answer is exactly one of them, isAnswerCorrect is
\* true when the user selects that option and false when the user selects any
\* other option of the question.
C26_TextOfOptionDecides ==
  (/\ call.op = "isAnswerCorrect" /\ call.question.type = "MULTIPLE_CHOICE"
   /\ PlainStrings(call.question.options)
   /\ \A i, j \in 1..Len(call.question.options.a) :
        i # j => call.question.options.a[i] # call.question.options.a[j]
   /\ \E i \in 1..Len(call.question.options.a) : call.question.correctAnswer = call.question.options.a[i]
   /\ \E j \in 1..Len(call.question.options.a) : Str(call.userAnswer) = call.question.options.a[j])
    => call.result = Bool(Str(call.userAnswer) = call.question.correctAnswer)

\* C27: for a MULTIPLE_CHOICE, TRUE_FALSE or FILL_IN_BLANK question with a
\* present correct answer and a non-empty user answer u, isAnswerCorrect of the
\* value prepareAnswersForSubmit emits for u equals isAnswerCorrect of u.
C27_EncodingKeepsGrade ==
  (/\ call.op = "encodeThenGrade" /\ call.question.type # "MULTI_SELECT"
   /\ ~IsNullish(call.question.correctAnswer)
   /\ call.regraded # Undefined)
    => call.regraded = call.correct

\* C28: whenever a quiz with a time limit is on screen, no submission is under
\* way and the time remaining is greater than zero, the countdown is running:
\* a tick is scheduled, also after a failed submission has returned the
\* session to the user.
C28_CountdownRunsWhileActive ==
  (/\ route = "quiz" /\ ~loading /\ quizData.present /\ quizData.timeLimit # 0
   /\ ~submitting /\ timeLeft > 0)
    => timer.state = "running"

\* C29: a quiz with a time limit is never on screen, with no submission under
\* way and zero time remaining, unless a forced submission has been triggered;
\* an attempt loaded with a computed remaining time of 0 is submitted at once.
C29_NoOpenAttemptAtZero ==
  (/\ route = "quiz" /\ ~loading /\ quizData.present /\ quizData.timeLimit # 0
   /\ ~submitting /\ timeLeft = 0)
    => sent.auto > 0

\* C30: the answer of a MULTI_SELECT question starts empty, and every step
\* that changes it stores a JSON array without duplicate entries whose set of
\* entries is the previous set with one option text toggled: added when it was
\* absent, removed when it was present.  So the array holds exactly the texts
\* toggled an odd number of times, and two toggles of one option restore the
\* previous set.
C30_TogglesKeepOddSelections ==
  [][(/\ quizData.present /\ quizData.questions[1].type = "MULTI_SELECT"
      /\ AnswerOf(answers', "q1") # AnswerOf(answers, "q1"))
       => Let2(IF AnswerOf(answers, "q1") = "" THEN Arr(<<>>) ELSE JSONparse(AnswerOf(answers, "q1")),
               JSONparse(AnswerOf(answers', "q1")), LAMBDA old, new :
            /\ IsArr(old) /\ IsArr(new)
            /\ \A i, j \in 1..Len(new.a) : i # j => new.a[i] # new.a[j]
            /\ \E t \in OptionTexts(quizData.questions[1]) :
                 {new.a[i] : i \in 1..Len(new.a)}
                   = IF Str(t) \in {old.a[i] : i \in 1..Len(old.a)}
                     THEN {old.a[i] : i \in 1..Len(old.a)} \ {Str(t)}
                     ELSE {old.a[i] : i \in 1..Len(old.a)} \cup {Str(t)})]_vars

\* an option was toggled on and off again: the stored answer is the empty array
C30_ToggledOnAndOff ==
  /\ quizData.present /\ quizData.questions[1].type = "MULTI_SELECT"
  /\ AnswerOf(answers, "q1") = "[]"

====
